---- MODULE Spec2Model ----
\* Model of the tape inventory engine of tapr.space/store/tape/inv/postgres
\* (postgres.go): the volumes table, the row locks and transactions the
\* engine opens on it, the media changer it drives, and the operations
\* Load, Unload, Transfer, Alloc, Audit, Update and Reset executed by
\* concurrent callers.
EXTENDS Naturals, Sequences, FiniteSets, TLC

\* ------------------------------------------------------------------ bounds

\* Number of operation calls made in one behaviour.
MaxOps == 2

\* Concurrent callers of the engine.
Procs == {"p1", "p2"}

\* ------------------------------------------------------------------ domain

\* Serials are strings of characters, kept as character sequences.
V1 == <<"V", "1">>
V2 == <<"V", "2">>
CLN1 == <<"C", "L", "N", "1">>
Serials == {V1, V2, CLN1}
NoSerial == <<>>

\* The "cleaning-prefix" option given to New.
prefixCleaning == <<"C", "L", "N">>

\* strings.HasPrefix
HasPrefix(s, prefix) ==
    /\ Len(s) >= Len(prefix)
    /\ \A i \in 1..Len(prefix) : s[i] = prefix[i]

\* tape.VolumeCategory: the iota constants.
UnknownVolume == 0
Allocating == 1
Allocated == 2
Scratch == 3
Filling == 4
Full == 5
Missing == 6
Damaged == 7
Cleaning == 8

\* VolumeCategory.String, used by Value() when a category is written.
CategoryString(cat) ==
    CASE cat = UnknownVolume -> "unknown"
      [] cat = Allocating -> "allocating"
      [] cat = Allocated -> "allocated"
      [] cat = Scratch -> "scratch"
      [] cat = Filling -> "filling"
      [] cat = Full -> "full"
      [] cat = Missing -> "missing"
      [] cat = Damaged -> "damaged"
      [] cat = Cleaning -> "cleaning"

\* ToVolumeCategory, used by Scan when a category is read.
ToVolumeCategory(str) ==
    CASE str = "unknown" -> UnknownVolume
      [] str = "allocating" -> Allocating
      [] str = "allocated" -> Allocated
      [] str = "scratch" -> Scratch
      [] str = "filling" -> Filling
      [] str = "full" -> Full
      [] str = "missing" -> Missing
      [] str = "damaged" -> Damaged
      [] str = "cleaning" -> Cleaning

\* Status flag bits (1 << iota).
StatusTransfering == 1
StatusMounted == 2
StatusNeedsCleaning == 4
StatusFormatted == 8

\* bitmask.IsSet / Set / Clear on a flags word.
IsSet(f, bit) == (f \div bit) % 2 = 1
SetBit(f, bit) == IF IsSet(f, bit) THEN f ELSE f + bit
ClearBit(f, bit) == IF IsSet(f, bit) THEN f - bit ELSE f

\* fmt.Sprintf("%b", flags): the binary digits, most significant first.
RECURSIVE FormatBits(_)
FormatBits(f) ==
    IF f < 2 THEN <<f>> ELSE Append(FormatBits(f \div 2), f % 2)

\* The flags column reading a bit string back into a number.
RECURSIVE BitIn(_)
BitIn(digits) ==
    IF digits = <<>> THEN 0
    ELSE 2 * BitIn(SubSeq(digits, 1, Len(digits) - 1)) + digits[Len(digits)]

\* tape.Location and the slot categories.
InvalidSlot == "invalid"
TransferSlot == "transfer"
StorageSlot == "storage"
ImportExportSlot == "ix"

Location(addr, category) == [addr |-> addr, category |-> category]

\* The zero Location: what a caller passes for "no destination" and what a
\* NULL column scans into.
ZeroLocation == Location(0, InvalidSlot)

\* The slots of the library.
Slots ==
    { Location(0, TransferSlot),
      Location(0, StorageSlot), Location(1, StorageSlot), Location(2, StorageSlot),
      Location(1, ImportExportSlot) }

\* Order in which Audit walks the snapshot: tape.SlotCategories, then the
\* slots of each category by address.
AuditOrder ==
    << Location(0, TransferSlot),
       Location(0, StorageSlot), Location(1, StorageSlot), Location(2, StorageSlot),
       Location(1, ImportExportSlot) >>

\* Destinations a caller passes to each move: slots of every category the
\* operation accepts and of one it rejects, and for Unload also the zero
\* Location ("return to the home slot").
Destinations(op) ==
    CASE op = "Load" -> {Location(0, TransferSlot), Location(2, StorageSlot)}
      [] op = "Unload" -> {ZeroLocation, Location(0, StorageSlot),
                           Location(1, ImportExportSlot), Location(0, TransferSlot)}
      [] op = "Transfer" -> {Location(2, StorageSlot), Location(0, TransferSlot)}

\* A NULL location column, and an empty slot of the library.
NULL == [null |-> TRUE]
Empty == <<>>

\* ------------------------------------------------------------------ state

VARIABLES
    db,      \* volumes table: a row for each serial it holds
    lock,    \* row lock of each serial: "free", a process, or "leaked"
    phys,    \* the library: slot -> serial or Empty
    pc,      \* position of each caller inside its operation
    cur,     \* the operation each caller is executing (its locals)
    hist,    \* operations that have returned, in order of return
    nOps,    \* operations called so far
    opLimit  \* operations that may be called in this behaviour

vars == <<db, lock, phys, pc, cur, hist, nOps, opLimit>>

\* rvol as scanned from a row: NULL locations scan into the zero Location.
ScanLocation(col) == IF col = NULL THEN ZeroLocation ELSE col

\* strconv.ParseUint(s, 10, 32) of the text the flags column returns: the
\* digits the engine wrote with %b are read as a number in base 10.
RECURSIVE ParseUint(_)
ParseUint(digits) ==
    IF digits = <<>> THEN 0
    ELSE 10 * ParseUint(SubSeq(digits, 1, Len(digits) - 1)) + digits[Len(digits)]

\* ParseUint fails with "value out of range" beyond 32 bits: of the numbers
\* written with the digits 0 and 1, those of more than ten digits.
ScanOk(row) == Len(FormatBits(row.flags)) < 11

Scan(serial, row) ==
    [ Serial |-> serial,
      Location |-> ScanLocation(row.location),
      Home |-> ScanLocation(row.home),
      Category |-> ToVolumeCategory(row.category),
      Flags |-> ParseUint(FormatBits(row.flags)) ]

NoRvol ==
    [ Serial |-> NoSerial, Location |-> ZeroLocation, Home |-> ZeroLocation,
      Category |-> UnknownVolume, Flags |-> 0 ]

NoCall == [src |-> ZeroLocation, dst |-> ZeroLocation]

NoOp ==
    [ id |-> 0, op |-> "none", serial |-> NoSerial, dst |-> ZeroLocation,
      r |-> NoRvol, tx |-> "none", committed |-> FALSE, invoked |-> FALSE,
      call |-> NoCall, chOk |-> FALSE, err |-> "", overlaps |-> {},
      snap |-> [l \in Slots |-> Empty], next |-> 0, result |-> NoSerial ]


\* ------------------------------------------------------------------ store

\* A row lock is free, held by the open transaction of a caller, or held
\* by a transaction that its caller abandoned without commit or rollback.
Free == "free"
Leaked == "leaked"

\* A commit that leaves the transaction open.
commit_Noop(tx) == tx

\* tx.Commit / tx.Rollback: the status of the transaction afterwards.
commit(tx) == "committed"
rollback(tx) == "rolledback"

\* A transaction that has ended holds no row lock any more.
Unlock(lk, p, status) ==
    [s \in Serials |-> IF lk[s] = p /\ status # "open" THEN Free ELSE lk[s]]

\* Returning with the transaction still open leaves its locks held.
Abandon(lk, p) == [s \in Serials |-> IF lk[s] = p THEN Leaked ELSE lk[s]]

\* A store that admits any location.
UniqueLocation_None(table, s, loc) == TRUE

\* The store admits one volume per location: a write that would give
\* serial s a location another row already has is rejected.
UniqueLocation(table, s, loc) ==
    \A t \in Serials \ {s} : t \in DOMAIN table => table[t].location # loc

\* ------------------------------------------------------------------ changer

\* A changer move succeeds only from an occupied slot into an empty one.
CanMove(src, dst) ==
    /\ src \in Slots
    /\ dst \in Slots
    /\ phys[src] # Empty
    /\ phys[dst] = Empty

Move(src, dst) == [phys EXCEPT ![dst] = phys[src], ![src] = Empty]

\* ------------------------------------------------------------------ init

Row(loc, home, category, flags) ==
    [location |-> loc, home |-> home, category |-> category, flags |-> flags]

\* Inventories the engine is started on. V1 rests in storage slot 1, CLN1
\* sits in storage slot 0 and has no row yet, and V2 is in one of four
\* situations: resting in storage slot 2; mounted in transfer slot 0 by an
\* earlier Load; recorded as mounted while the library holds it in slot 2
\* again (an Unload moved it back after an Audit had taken its snapshot); or
\* resting in storage slot 2 with no row yet (no Audit has seen it).
Layouts ==
    { [c1 |-> Scratch, c2 |-> Scratch, v2 |-> "idle"],
      [c1 |-> Scratch, c2 |-> Filling, v2 |-> "idle"],
      [c1 |-> Filling, c2 |-> Scratch, v2 |-> "idle"],
      [c1 |-> Filling, c2 |-> Filling, v2 |-> "idle"],
      [c1 |-> Scratch, c2 |-> Scratch, v2 |-> "mounted"],
      [c1 |-> Scratch, c2 |-> Scratch, v2 |-> "stale"],
      [c1 |-> Scratch, c2 |-> Scratch, v2 |-> "unknown"] }

InitWith(layouts, limit) ==
    /\ \E y \in layouts :
          /\ db = [s \in (IF y.v2 = "unknown" THEN {V1} ELSE {V1, V2}) |->
                     IF s = V1
                     THEN Row(Location(1, StorageSlot), NULL, CategoryString(y.c1),
                              StatusFormatted)
                     ELSE IF y.v2 = "idle"
                     THEN Row(Location(2, StorageSlot), NULL, CategoryString(y.c2), 0)
                     ELSE Row(Location(0, TransferSlot), Location(2, StorageSlot),
                              CategoryString(y.c2), StatusMounted)]
          /\ phys = [l \in Slots |->
                       IF l = Location(1, StorageSlot) THEN V1
                       ELSE IF l = Location(0, StorageSlot) THEN CLN1
                       ELSE IF l = Location(2, StorageSlot) /\ y.v2 # "mounted" THEN V2
                       ELSE IF l = Location(0, TransferSlot) /\ y.v2 = "mounted" THEN V2
                       ELSE Empty]
    /\ lock = [s \in Serials |-> Free]
    /\ pc = [p \in Procs |-> "idle"]
    /\ cur = [p \in Procs |-> NoOp]
    /\ hist = <<>>
    /\ nOps = 0
    /\ opLimit = limit

Init == InitWith(Layouts, MaxOps)

\* One inventory, both volumes Scratch and resting in storage, and one more
\* call.
InitDeep == InitWith({[c1 |-> Scratch, c2 |-> Scratch, v2 |-> "idle"]}, MaxOps + 1)

\* ------------------------------------------------------------------ calls

\* A caller returns: its operation record joins the history.
Return(p, rec) ==
    /\ pc' = [pc EXCEPT ![p] = "idle"]
    /\ cur' = [cur EXCEPT ![p] = NoOp]
    /\ hist' = Append(hist, rec)

Active(p) == {q \in Procs \ {p} : pc[q] # "idle"}

\* Callers are interchangeable: a new call is taken by the first idle one.
Caller(p) ==
    /\ pc[p] = "idle"
    /\ p = "p2" => pc["p1"] # "idle"

\* A caller enters Load, Unload or Transfer: p.db.Beginx().
CallMove(p) ==
    /\ Caller(p)
    /\ nOps < opLimit
    /\ \E op \in {"Load", "Unload", "Transfer"}, s \in Serials :
       \E dst \in Destinations(op) :
          cur' = [q \in Procs |->
                    IF q = p
                    THEN [NoOp EXCEPT !.id = nOps + 1, !.op = op, !.serial = s,
                                      !.dst = dst, !.tx = "open",
                                      !.overlaps = {cur[a].id : a \in Active(p)}]
                    ELSE IF q \in Active(p)
                    THEN [cur[q] EXCEPT !.overlaps = @ \cup {nOps + 1}]
                    ELSE cur[q]]
    /\ pc' = [pc EXCEPT ![p] = "select"]
    /\ nOps' = nOps + 1
    /\ UNCHANGED opLimit
    /\ UNCHANGED <<db, lock, phys, hist>>

\* ------------------------------------------------------------------ Load

\* Load's SELECT without the locking clause.
LoadForUpdate_Off == FALSE

\* Load's SELECT carries FOR UPDATE.
LoadForUpdate == TRUE

LoadSrcValid(r) ==
    ~(r.Location.category # StorageSlot /\ r.Location.category # ImportExportSlot)

\* Load without the destination check.
LoadDstValid_Any(dst) == TRUE

LoadDstValid(dst) == ~(dst.category # TransferSlot)

\* Load's intent flags without Mounted.
LoadIntentFlags_NoMount(f) == SetBit(f, StatusTransfering)

LoadIntentFlags(f) == SetBit(SetBit(f, StatusTransfering), StatusMounted)

\* UPDATE volumes SET location = NULL, home = ($1, $2), flags = $3
LoadIntentRow(row, r, flags) ==
    [row EXCEPT !.location = NULL,
                !.home = Location(r.Location.addr, r.Location.category),
                !.flags = BitIn(FormatBits(flags))]

LoadFinalCategory(cat) == IF cat = Allocating THEN Allocated ELSE cat

\* UPDATE volumes SET location = ($1, $2), category = $3, flags = $4
LoadFinalRow(row, dst, r) ==
    [row EXCEPT !.location = Location(dst.addr, dst.category),
                !.category = CategoryString(LoadFinalCategory(r.Category)),
                !.flags = BitIn(FormatBits(ClearBit(r.Flags, StatusTransfering)))]

\* tx.Get(&r, SELECT ... [FOR UPDATE]): no row, or a row that does not scan
\* into rvol, is an error and a rollback; a locked row makes a locking read
\* wait.
Select(p, forUpdate) ==
    LET s == cur[p].serial IN
    /\ pc[p] = "select"
    /\ IF s \notin DOMAIN db
       THEN /\ Return(p, [cur[p] EXCEPT !.tx = rollback(@), !.err = "ErrNoRows"])
            /\ UNCHANGED lock
       ELSE IF ~ScanOk(db[s])
       THEN /\ forUpdate => lock[s] = Free
            /\ Return(p, [cur[p] EXCEPT !.tx = rollback(@), !.err = "ScanError"])
            /\ UNCHANGED lock
       ELSE /\ forUpdate => lock[s] = Free
            /\ lock' = IF forUpdate THEN [lock EXCEPT ![s] = p] ELSE lock
            /\ cur' = [cur EXCEPT ![p].r = Scan(s, db[s])]
            /\ pc' = [pc EXCEPT ![p] = "phase1"]
            /\ UNCHANGED hist
    /\ UNCHANGED <<db, phys, nOps, opLimit>>

LoadSelect(p) ==
    /\ cur[p].op = "Load"
    /\ Select(p, LoadForUpdate)

\* Validation, then the intent write and the commit.
LoadPhase1(p) ==
    LET c == cur[p]
        flags == LoadIntentFlags(c.r.Flags)
    IN
    /\ pc[p] = "phase1"
    /\ c.op = "Load"
    /\ IF ~LoadSrcValid(c.r) \/ ~LoadDstValid(c.dst)
       THEN /\ Return(p, [c EXCEPT !.err = "InvalidTransition"])
            /\ lock' = Abandon(lock, p)
            /\ UNCHANGED db
       ELSE /\ lock[c.serial] \in {Free, p}
            /\ db' = [db EXCEPT ![c.serial] = LoadIntentRow(@, c.r, flags)]
            /\ lock' = Unlock(lock, p, commit(c.tx))
            /\ cur' = [cur EXCEPT ![p] =
                         [c EXCEPT !.r.Flags = flags, !.tx = commit(@),
                                   !.committed = TRUE, !.invoked = TRUE,
                                   !.call = [src |-> c.r.Location, dst |-> c.dst]]]
            /\ pc' = [pc EXCEPT ![p] = "phase2"]
            /\ UNCHANGED hist
    /\ UNCHANGED <<phys, nOps, opLimit>>

\* chgr.Load / chgr.Unload returns: a fault leaves the library as it was.
Changer(p) ==
    LET c == cur[p] IN
    /\ pc[p] = "phase2"
    /\ \/ /\ Return(p, [c EXCEPT !.err = "ChangerFault"])
          /\ UNCHANGED phys
       \/ /\ CanMove(c.call.src, c.call.dst)
          /\ phys' = Move(c.call.src, c.call.dst)
          /\ cur' = [cur EXCEPT ![p].chOk = TRUE]
          /\ pc' = [pc EXCEPT ![p] = "phase3"]
          /\ UNCHANGED hist
    /\ UNCHANGED <<db, lock, nOps, opLimit>>

LoadChanger(p) ==
    /\ cur[p].op = "Load"
    /\ Changer(p)

\* p.db.Exec of the final UPDATE, outside any transaction.
LoadFinalize(p) ==
    LET c == cur[p] IN
    /\ pc[p] = "phase3"
    /\ c.op = "Load"
    /\ lock[c.serial] = Free
    /\ IF c.serial \notin DOMAIN db
       THEN /\ UNCHANGED db
            /\ Return(p, [c EXCEPT !.r.Flags = ClearBit(@, StatusTransfering),
                                   !.r.Category = LoadFinalCategory(@)])
       ELSE IF UniqueLocation(db, c.serial, Location(c.dst.addr, c.dst.category))
       THEN /\ db' = [db EXCEPT ![c.serial] = LoadFinalRow(@, c.dst, c.r)]
            /\ Return(p, [c EXCEPT !.r.Flags = ClearBit(@, StatusTransfering),
                                   !.r.Category = LoadFinalCategory(@)])
       ELSE /\ UNCHANGED db
            /\ Return(p, [c EXCEPT !.r.Flags = ClearBit(@, StatusTransfering),
                                   !.r.Category = LoadFinalCategory(@),
                                   !.err = "UniqueViolation"])
    /\ UNCHANGED <<lock, phys, nOps, opLimit>>

\* ------------------------------------------------------------------ Unload

\* Unload's SELECT has no FOR UPDATE.
UnloadForUpdate == FALSE

\* if dst.Addr == 0 { dst = r.Home }
UnloadDst(dst, r) == IF dst.addr = 0 THEN r.Home ELSE dst

\* Unload without the source check.
UnloadSrcValid_Any(r) == TRUE

UnloadSrcValid(r) == ~(r.Location.category # TransferSlot)

UnloadDstValid(dst) ==
    ~(dst.category # StorageSlot /\ dst.category # ImportExportSlot)

\* Unload's intent flags without Transfering.
UnloadIntentFlags_NoTransfering(f) == ClearBit(f, StatusMounted)

UnloadIntentFlags(f) == SetBit(ClearBit(f, StatusMounted), StatusTransfering)

\* UPDATE volumes SET location = NULL, flags = $1
UnloadIntentRow(row, flags) ==
    [row EXCEPT !.location = NULL, !.flags = BitIn(FormatBits(flags))]

\* database/sql: a statement on a transaction that was committed or rolled
\* back fails with ErrTxDone.
TxExec(tx) == IF tx = "open" THEN "ok" ELSE "ErrTxDone"

\* A statement must be given as many arguments as its highest placeholder.
ArgsMatch(placeholders, args) == placeholders = args

UnloadSelect(p) ==
    /\ cur[p].op = "Unload"
    /\ Select(p, UnloadForUpdate)

UnloadPhase1(p) ==
    LET c == cur[p]
        dst == UnloadDst(c.dst, c.r)
        flags == UnloadIntentFlags(c.r.Flags)
    IN
    /\ pc[p] = "phase1"
    /\ c.op = "Unload"
    /\ IF ~UnloadSrcValid(c.r) \/ ~UnloadDstValid(dst)
       THEN /\ Return(p, [c EXCEPT !.err = "InvalidTransition"])
            /\ lock' = Abandon(lock, p)
            /\ UNCHANGED db
       ELSE /\ lock[c.serial] \in {Free, p}
            /\ db' = [db EXCEPT ![c.serial] = UnloadIntentRow(@, flags)]
            /\ lock' = Unlock(lock, p, commit(c.tx))
            /\ cur' = [cur EXCEPT ![p] =
                         [c EXCEPT !.r.Flags = flags, !.tx = commit(@),
                                   !.committed = TRUE, !.invoked = TRUE,
                                   !.call = [src |-> c.r.Location, dst |-> dst]]]
            /\ pc' = [pc EXCEPT ![p] = "phase2"]
            /\ UNCHANGED hist
    /\ UNCHANGED <<phys, nOps, opLimit>>

UnloadChanger(p) ==
    /\ cur[p].op = "Unload"
    /\ Changer(p)

\* tx.Exec of the final UPDATE on the transaction Phase 1 committed; the
\* statement names $1..$3 and is given two arguments.
UnloadFinalize(p) ==
    LET c == cur[p]
        res == IF TxExec(c.tx) # "ok" THEN TxExec(c.tx)
               ELSE IF ~ArgsMatch(3, 2) THEN "ExecError" ELSE "ok"
    IN
    /\ pc[p] = "phase3"
    /\ c.op = "Unload"
    /\ res # "ok"
    /\ Return(p, [c EXCEPT !.r.Flags = ClearBit(@, StatusTransfering), !.err = res])
    /\ UNCHANGED <<db, lock, phys, nOps, opLimit>>

\* ------------------------------------------------------------------ Transfer

\* Transfer's SELECT has no FOR UPDATE.
TransferForUpdate == FALSE

TransferSrcValid(r) ==
    ~(r.Location.category # StorageSlot /\ r.Location.category # ImportExportSlot)

TransferDstValid(dst) ==
    ~(dst.category # StorageSlot /\ dst.category # ImportExportSlot)

TransferSelect(p) ==
    /\ cur[p].op = "Transfer"
    /\ Select(p, TransferForUpdate)

\* Validation, then the intent UPDATE: the statement names $3 and $4 and
\* is given three arguments, so the Exec fails and the transaction is
\* rolled back; Transfer returns before it calls the changer.
TransferPhase1(p) ==
    LET c == cur[p] IN
    /\ pc[p] = "phase1"
    /\ c.op = "Transfer"
    /\ IF ~TransferSrcValid(c.r) \/ ~TransferDstValid(c.dst)
       THEN /\ Return(p, [c EXCEPT !.err = "InvalidTransition"])
            /\ lock' = Abandon(lock, p)
       ELSE /\ ~ArgsMatch(4, 3)
            /\ Return(p, [c EXCEPT !.r.Flags = SetBit(@, StatusTransfering),
                                   !.tx = rollback(@), !.err = "ExecError"])
            /\ lock' = Unlock(lock, p, rollback(c.tx))
    /\ UNCHANGED <<db, phys, nOps, opLimit>>

\* ------------------------------------------------------------------ Alloc

\* The characters serials are written in, in collation order.
Chars == <<"1", "2", "C", "L", "N", "V">>

CharRank(ch) == CHOOSE i \in 1..Len(Chars) : Chars[i] = ch

\* ORDER BY serial
RECURSIVE SerialLess(_, _)
SerialLess(a, b) ==
    IF a = <<>> THEN b # <<>>
    ELSE IF b = <<>> THEN FALSE
    ELSE IF Head(a) = Head(b) THEN SerialLess(Tail(a), Tail(b))
    ELSE CharRank(Head(a)) < CharRank(Head(b))

\* ORDER BY category, for the two categories Alloc selects.
CategoryOrder(str) == IF str = "filling" THEN 0 ELSE 1

\* WHERE category IN ('filling', 'scratch') AND (location).category = 'storage'
Candidates(table) ==
    {s \in DOMAIN table :
        /\ table[s].category \in {"filling", "scratch"}
        /\ table[s].location # NULL
        /\ table[s].location.category = StorageSlot}

\* ORDER BY serial alone.
Before_SerialOnly(table, a, b) == SerialLess(a, b)

\* ORDER BY category, serial
Before(table, a, b) ==
    \/ CategoryOrder(table[a].category) < CategoryOrder(table[b].category)
    \/ /\ CategoryOrder(table[a].category) = CategoryOrder(table[b].category)
       /\ SerialLess(a, b)

\* LIMIT 1
Best(table) ==
    CHOOSE s \in Candidates(table) :
        \A u \in Candidates(table) \ {s} : Before(table, s, u)

AllocCategory_Always(cat) == Allocating

AllocCategory(cat) == IF cat # Filling THEN Allocating ELSE cat

CallAlloc(p) ==
    /\ Caller(p)
    /\ nOps < opLimit
    /\ cur' = [q \in Procs |->
                 IF q = p
                 THEN [NoOp EXCEPT !.id = nOps + 1, !.op = "Alloc", !.tx = "open",
                                   !.overlaps = {cur[a].id : a \in Active(p)}]
                 ELSE IF q \in Active(p)
                 THEN [cur[q] EXCEPT !.overlaps = @ \cup {nOps + 1}]
                 ELSE cur[q]]
    /\ pc' = [pc EXCEPT ![p] = "alloc"]
    /\ nOps' = nOps + 1
    /\ UNCHANGED opLimit
    /\ UNCHANGED <<db, lock, phys, hist>>

\* The whole transaction: the locking SELECT, the UPDATE and the commit.
AllocTx(p) ==
    LET c == cur[p] IN
    /\ pc[p] = "alloc"
    /\ IF Candidates(db) = {}
       THEN /\ Return(p, [c EXCEPT !.tx = rollback(@), !.err = "ErrNoRows"])
            /\ UNCHANGED db
       ELSE IF ~ScanOk(db[Best(db)])
       THEN /\ lock[Best(db)] = Free
            /\ Return(p, [c EXCEPT !.tx = rollback(@), !.err = "ScanError"])
            /\ UNCHANGED db
       ELSE LET s == Best(db)
                r == Scan(s, db[s])
            IN
            /\ lock[s] = Free
            /\ db' = [db EXCEPT ![s].category = CategoryString(AllocCategory(r.Category))]
            /\ Return(p, [c EXCEPT !.r = [r EXCEPT !.Category = AllocCategory(@)],
                                   !.tx = commit(@), !.committed = TRUE,
                                   !.result = s])
    /\ UNCHANGED <<lock, phys, nOps, opLimit>>

\* ------------------------------------------------------------------ Audit

\* Audit marking every occupant Mounted.
AuditFlags_AlwaysMounted(slotCategory) == SetBit(0, StatusMounted)

\* flags: Mounted for the slots of the transfer category, else none.
AuditFlags(slotCategory) ==
    IF slotCategory = TransferSlot THEN SetBit(0, StatusMounted) ELSE 0

AuditCategory(serial) ==
    IF HasPrefix(serial, prefixCleaning) THEN Cleaning ELSE Scratch

\* ... DO UPDATE SET location = ($2, $3), category = $4, flags = $5
Upsert_SetsCategory(table, serial, slot, category, flags) ==
    (serial :> Row(Location(slot.addr, slot.category),
                   IF serial \in DOMAIN table THEN table[serial].home ELSE NULL,
                   CategoryString(category), BitIn(FormatBits(flags))))
    @@ table

\* ... DO UPDATE SET location = ($2, $3)
Upsert_LocationOnly(table, serial, slot, category, flags) ==
    IF serial \in DOMAIN table
    THEN [table EXCEPT ![serial].location = Location(slot.addr, slot.category)]
    ELSE (serial :> Row(Location(slot.addr, slot.category), NULL,
                        CategoryString(category), BitIn(FormatBits(flags))))
         @@ table

\* ... DO UPDATE SET location = ($2, $3), home = volumes.location, flags = $5
Upsert_KeepsOldLocation(table, serial, slot, category, flags) ==
    IF serial \in DOMAIN table
    THEN [table EXCEPT ![serial].location = Location(slot.addr, slot.category),
                       ![serial].home = table[serial].location,
                       ![serial].flags = BitIn(FormatBits(flags))]
    ELSE (serial :> Row(Location(slot.addr, slot.category), NULL,
                        CategoryString(category), BitIn(FormatBits(flags))))
         @@ table

\* INSERT INTO volumes (serial, location, category, flags) ...
\* ON CONFLICT (serial) DO UPDATE SET location = ($2, $3), flags = $5
Upsert(table, serial, slot, category, flags) ==
    IF serial \in DOMAIN table
    THEN [table EXCEPT ![serial].location = Location(slot.addr, slot.category),
                       ![serial].flags = BitIn(FormatBits(flags))]
    ELSE (serial :> Row(Location(slot.addr, slot.category), NULL,
                        CategoryString(category), BitIn(FormatBits(flags))))
         @@ table

\* Positions of AuditOrder, from position i on, whose slot holds a volume.
Occupied(snap, i) ==
    {j \in i..Len(AuditOrder) : snap[AuditOrder[j]] # Empty}

Min(S) == CHOOSE x \in S : \A y \in S : x <= y

CallAudit(p) ==
    /\ Caller(p)
    /\ nOps < opLimit
    /\ cur' = [q \in Procs |->
                 IF q = p
                 THEN [NoOp EXCEPT !.id = nOps + 1, !.op = "Audit",
                                   !.overlaps = {cur[a].id : a \in Active(p)}]
                 ELSE IF q \in Active(p)
                 THEN [cur[q] EXCEPT !.overlaps = @ \cup {nOps + 1}]
                 ELSE cur[q]]
    /\ pc' = [pc EXCEPT ![p] = "status"]
    /\ nOps' = nOps + 1
    /\ UNCHANGED opLimit
    /\ UNCHANGED <<db, lock, phys, hist>>

\* chgr.Status(): the snapshot of the library, or a fault.
AuditStatus(p) ==
    /\ pc[p] = "status"
    /\ \/ Return(p, [cur[p] EXCEPT !.err = "StatusFault"])
       \/ /\ cur' = [cur EXCEPT ![p].snap = phys, ![p].next = 1]
          /\ pc' = [pc EXCEPT ![p] = "upsert"]
          /\ UNCHANGED hist
    /\ UNCHANGED <<db, lock, phys, nOps, opLimit>>

\* One p.db.Exec of the upsert, for the next occupied slot of the snapshot;
\* Audit returns after the last one, or at the first one that fails.
AuditUpsert(p) ==
    LET c == cur[p]
        todo == Occupied(c.snap, c.next)
    IN
    /\ pc[p] = "upsert"
    /\ IF todo = {}
       THEN /\ Return(p, c)
            /\ UNCHANGED db
       ELSE LET j == Min(todo)
                slot == AuditOrder[j]
                v == c.snap[slot]
            IN
            /\ v \in DOMAIN db => lock[v] = Free
            /\ IF ~UniqueLocation(db, v, Location(slot.addr, slot.category))
               THEN /\ Return(p, [c EXCEPT !.next = j, !.err = "UniqueViolation"])
                    /\ UNCHANGED db
               ELSE /\ db' = Upsert(db, v, slot, AuditCategory(v),
                                    AuditFlags(slot.category))
                    /\ IF Occupied(c.snap, j + 1) = {}
                       THEN Return(p, [c EXCEPT !.next = j + 1])
                       ELSE /\ cur' = [cur EXCEPT ![p].next = j + 1]
                            /\ UNCHANGED <<pc, hist>>
    /\ UNCHANGED <<lock, phys, nOps, opLimit>>

\* ------------------------------------------------------------------ Update

\* tape.Volume as a caller passes it to Update.
Volume(serial, location, home, category, flags) ==
    [ Serial |-> serial, Location |-> location, Home |-> home,
      Category |-> category, Flags |-> flags ]

\* Volumes callers pass to Update: V1 declared Full and Mounted in its storage
\* slot, and V2 declared Scratch in the transfer slot; neither names a home.
Updates ==
    { Volume(V1, Location(1, StorageSlot), ZeroLocation, Full, StatusMounted),
      Volume(V2, Location(0, TransferSlot), ZeroLocation, Scratch, 0) }

\* UPDATE volumes SET location = ($1, $2), home = ($3, $4), category = $5,
\* flags = $6
UpdateRow(vol) ==
    Row(Location(vol.Location.addr, vol.Location.category),
        Location(vol.Home.addr, vol.Home.category),
        CategoryString(vol.Category), BitIn(FormatBits(vol.Flags)))

\* Update: one p.db.Exec outside any transaction. It waits for the row's
\* lock, changes nothing when the serial has no row, and fails when the
\* store rejects the location.
Update(p) ==
    /\ Caller(p)
    /\ nOps < opLimit
    /\ \E vol \in Updates :
          LET s == vol.Serial
              rec == [NoOp EXCEPT !.id = nOps + 1, !.op = "Update", !.serial = s,
                                  !.overlaps = {cur[a].id : a \in Active(p)}]
          IN
          /\ s \in DOMAIN db => lock[s] = Free
          /\ IF s \notin DOMAIN db
             THEN /\ UNCHANGED db
                  /\ hist' = Append(hist, rec)
             ELSE IF ~UniqueLocation(db, s, UpdateRow(vol).location)
             THEN /\ UNCHANGED db
                  /\ hist' = Append(hist, [rec EXCEPT !.err = "UniqueViolation"])
             ELSE /\ db' = [db EXCEPT ![s] = UpdateRow(vol)]
                  /\ hist' = Append(hist, rec)
    /\ cur' = [q \in Procs |->
                 IF q \in Active(p)
                 THEN [cur[q] EXCEPT !.overlaps = @ \cup {nOps + 1}]
                 ELSE cur[q]]
    /\ nOps' = nOps + 1
    /\ UNCHANGED <<lock, phys, pc, opLimit>>

\* ------------------------------------------------------------------ Reset

\* A transaction that has read the volumes table and is still open, in
\* flight or abandoned, keeps a lock on the table.
TableInUse ==
    \/ \E q \in Procs : pc[q] = "phase1"
    \/ \E i \in 1..Len(hist) : hist[i].tx = "open"

\* Reset: the statements of resetSchema drop the tables and create them
\* again, which leaves volumes empty; dropping the table waits for every
\* transaction that uses it.
Reset(p) ==
    /\ Caller(p)
    /\ nOps < opLimit
    /\ ~TableInUse
    /\ db' = [s \in {} |-> NULL]
    /\ hist' = Append(hist, [NoOp EXCEPT !.id = nOps + 1, !.op = "Reset",
                                         !.overlaps = {cur[a].id : a \in Active(p)}])
    /\ cur' = [q \in Procs |->
                 IF q \in Active(p)
                 THEN [cur[q] EXCEPT !.overlaps = @ \cup {nOps + 1}]
                 ELSE cur[q]]
    /\ nOps' = nOps + 1
    /\ UNCHANGED <<lock, phys, pc, opLimit>>

\* ------------------------------------------------------------------ spec

\* The steps of Load, Unload, Transfer, Alloc and Audit.
NextOps ==
    \E p \in Procs :
        \/ CallMove(p)
        \/ LoadSelect(p)
        \/ LoadPhase1(p)
        \/ LoadChanger(p)
        \/ LoadFinalize(p)
        \/ UnloadSelect(p)
        \/ UnloadPhase1(p)
        \/ UnloadChanger(p)
        \/ UnloadFinalize(p)
        \/ TransferSelect(p)
        \/ TransferPhase1(p)
        \/ CallAlloc(p)
        \/ AllocTx(p)
        \/ CallAudit(p)
        \/ AuditStatus(p)
        \/ AuditUpsert(p)

\* Every operation of the engine that writes the volumes table.
Next ==
    \/ NextOps
    \/ \E p \in Procs : Update(p)
    \/ \E p \in Procs : Reset(p)

Spec == Init /\ [][Next]_vars

\* Callers that use Load, Unload, Transfer, Alloc and Audit only.
SpecOps == Init /\ [][NextOps]_vars

SpecDeep == InitDeep /\ [][NextOps]_vars


\* ------------------------------------------------------------------ claims

Returned == {hist[i] : i \in 1..Len(hist)}
InFlight == {cur[p] : p \in {q \in Procs : pc[q] # "idle"}}
AllOps == Returned \cup InFlight

Quiet == \A p \in Procs : pc[p] = "idle"

\* The operation ran with no other operation in flight at any time, and
\* nothing has been called since it returned.
Alone(a) ==
    /\ a \in Returned
    /\ a.overlaps = {}
    /\ nOps = a.id
    /\ Quiet

Transfering(row) == IsSet(row.flags, StatusTransfering)
Mounted(row) == IsSet(row.flags, StatusMounted)

StorageOrIx(loc) == loc.category \in {StorageSlot, ImportExportSlot}

\* C1: a Load to a transfer slot followed directly by an Unload with no
\* destination, both changer calls succeeding and nothing else running,
\* leaves the row with its pre-Load location and with Transfering and
\* Mounted cleared.
C1_RoundTrip ==
    \A i \in 1..(Len(hist) - 1) :
        LET a == hist[i]
            b == hist[i + 1]
        IN
        ( /\ a.op = "Load" /\ a.chOk /\ a.overlaps = {}
          /\ b.op = "Unload" /\ b.chOk /\ b.serial = a.serial
          /\ b.dst = ZeroLocation /\ b.id = a.id + 1
          /\ StorageOrIx(a.call.src)
          /\ Alone(b) )
        => /\ db[a.serial].location = a.call.src
           /\ ~Transfering(db[a.serial])
           /\ ~Mounted(db[a.serial])

\* Two operations of the same kind on the same serial that were in flight
\* at the same time, with no third operation in flight next to either.
Racing(a, b, op) ==
    /\ a.op = op /\ b.op = op
    /\ a.serial = b.serial
    /\ a.id < b.id
    /\ a.overlaps = {b.id}
    /\ b.overlaps = {a.id}

\* C2: of two concurrent Loads of one serial at most one commits Phase 1
\* and calls the changer; once both have returned, exactly one has
\* committed and the other has failed validation.
C2_LoadExclusive ==
    \A a, b \in AllOps :
        Racing(a, b, "Load") =>
            /\ ~(a.committed /\ b.committed)
            /\ ~(a.invoked /\ b.invoked)
            /\ ( /\ a \in Returned /\ b \in Returned
                 /\ a.dst.category = TransferSlot /\ b.dst.category = TransferSlot
                 /\ (StorageOrIx(a.r.Location) \/ StorageOrIx(b.r.Location)) )
               => \/ a.committed /\ b.err = "InvalidTransition"
                  \/ b.committed /\ a.err = "InvalidTransition"

C2_Witness ==
    \E a, b \in Returned :
        /\ Racing(a, b, "Load")
        /\ a.dst.category = TransferSlot /\ b.dst.category = TransferSlot
        /\ \/ a.committed /\ b.err = "InvalidTransition"
           \/ b.committed /\ a.err = "InvalidTransition"

\* C3: of two concurrent Unloads of one serial, and of two concurrent
\* Transfers of one serial, at most one commits its Phase 1 intent and
\* calls the changer.
C3_UnloadTransferExclusive ==
    \A a, b \in AllOps :
        (Racing(a, b, "Unload") \/ Racing(a, b, "Transfer")) =>
            /\ ~(a.committed /\ b.committed)
            /\ ~(a.invoked /\ b.invoked)

\* The categories the slot-category table rejects, as Phase 1 meets them:
\* the location read from the row, and the destination. For Unload the
\* destination is the caller's, or the recorded home when the caller gave
\* none, which the engine reads off a destination address of 0.
WrongCategories(c) ==
    CASE c.op = "Load" ->
            ~StorageOrIx(c.r.Location) \/ c.dst.category # TransferSlot
      [] c.op = "Unload" ->
            \/ c.r.Location.category # TransferSlot
            \/ c.dst.addr # 0 /\ ~StorageOrIx(c.dst)
            \/ c.dst.addr = 0 /\ ~StorageOrIx(c.r.Home)
      [] c.op = "Transfer" ->
            ~StorageOrIx(c.r.Location) \/ ~StorageOrIx(c.dst)
      [] OTHER -> FALSE

\* C4: a move whose categories the table rejects returns an error at its
\* validation step, without calling the changer and without changing any
\* row of the table or the library.
C4_ValidationFailureFrame ==
    [][ \A p \in Procs :
          (pc[p] = "phase1" /\ pc'[p] # "phase1" /\ WrongCategories(cur[p])) =>
              /\ pc'[p] = "idle"
              /\ db' = db
              /\ phys' = phys
              /\ hist' = Append(hist, hist'[Len(hist')])
              /\ hist'[Len(hist')].id = cur[p].id
              /\ hist'[Len(hist')].err = "InvalidTransition"
              /\ ~hist'[Len(hist')].invoked ]_vars

C4_Witness ==
    \E a, b \in Returned :
        /\ a.op = "Load" /\ a.err = "InvalidTransition"
        /\ b.op = "Unload" /\ b.err = "InvalidTransition"

\* C5: the changer is called only for the transitions of the table, and
\* with the location Phase 1 read from the row as source.
C5_ChangerCallsValid ==
    \A a \in AllOps :
        a.invoked =>
            /\ a.call.src = a.r.Location
            /\ CASE a.op = "Load" ->
                       StorageOrIx(a.call.src) /\ a.call.dst.category = TransferSlot
                 [] a.op = "Unload" ->
                       a.call.src.category = TransferSlot /\ StorageOrIx(a.call.dst)
                 [] a.op = "Transfer" ->
                       StorageOrIx(a.call.src) /\ StorageOrIx(a.call.dst)
                 [] OTHER -> FALSE

C5_Witness ==
    \E a, b \in AllOps :
        /\ a.op = "Load" /\ a.invoked
        /\ b.op = "Unload" /\ b.invoked

\* C6: when the changer call fails the operation returns the fault and the
\* row stays as Phase 1 wrote it: location absent, Transfering set, and for
\* Load also Mounted set, home the pre-Load location, category unchanged.
C6_ChangerFailureLeavesIntent ==
    \A a \in Returned :
        (a.invoked /\ ~a.chOk) =>
            /\ a.err = "ChangerFault"
            /\ Alone(a) =>
                 /\ db[a.serial].location = NULL
                 /\ Transfering(db[a.serial])
                 /\ a.op = "Load" =>
                      /\ Mounted(db[a.serial])
                      /\ db[a.serial].home = a.call.src
                      /\ db[a.serial].category = CategoryString(a.r.Category)
                 /\ a.op = "Unload" => ~Mounted(db[a.serial])

C6_Witness ==
    \E a \in Returned :
        /\ a.op = "Load" /\ a.invoked /\ ~a.chOk /\ Alone(a)
        /\ db[a.serial].location = NULL
        /\ db[a.serial].home = Location(1, StorageSlot)

\* C7: a move whose validation passed and whose changer call succeeded
\* has, when it returns, cleared Transfering and set location to the
\* destination; after Load, Mounted is set and home is the old location.
C7_SuccessFinalizes ==
    \A a \in Returned :
        (a.op \in {"Load", "Unload", "Transfer"} /\ a.invoked /\ a.chOk /\ Alone(a)) =>
            /\ db[a.serial].location = a.call.dst
            /\ ~Transfering(db[a.serial])
            /\ a.op = "Load" =>
                 /\ Mounted(db[a.serial])
                 /\ db[a.serial].home = a.call.src

\* C8: while the changer call of a move is in progress the caller's
\* transaction is committed and it holds no row lock.
C8_NoTxDuringChanger ==
    \A p \in Procs :
        pc[p] = "phase2" =>
            /\ cur[p].tx = "committed"
            /\ \A s \in Serials : lock[s] # p

C8_Witness ==
    \E p, q \in Procs :
        /\ pc[p] = "phase2" /\ cur[p].op = "Load"
        /\ pc[q] = "phase2" /\ cur[q].op = "Unload"

\* C9: a volume with Mounted set is in a transfer slot or has no location.
C9_MountedInTransfer ==
    \A s \in DOMAIN db :
        Mounted(db[s]) =>
            \/ db[s].location = NULL
            \/ db[s].location.category = TransferSlot

C9_Witness ==
    \E a, b \in Returned :
        /\ a.op = "Load" /\ a.err = "" /\ b.op = "Audit" /\ b.err = ""
        /\ a.id < b.id
        /\ Mounted(db[a.serial])
        /\ db[a.serial].location = Location(0, TransferSlot)

\* C10: no two rows have the same present location.
C10_OneVolumePerLocation ==
    \A s, u \in DOMAIN db :
        (s # u /\ db[s].location # NULL) => db[s].location # db[u].location

C10_Witness ==
    \E a \in Returned :
        /\ a.op = "Load" /\ a.chOk /\ a.err = "UniqueViolation"
        /\ \E u \in DOMAIN db \ {a.serial} : db[u].location = a.call.dst
        /\ db[a.serial].location = NULL

\* The volumes Alloc may hand out: category Filling or Scratch, resting in a
\* storage slot.
Eligible ==
    {s \in DOMAIN db :
        /\ db[s].category \in {CategoryString(Filling), CategoryString(Scratch)}
        /\ db[s].location # NULL
        /\ db[s].location.category = StorageSlot}

\* s comes before u by (category, serial), Filling before Scratch.
AllocBefore(s, u) ==
    \/ db[s].category = CategoryString(Filling) /\ db[u].category = CategoryString(Scratch)
    \/ db[s].category = db[u].category /\ SerialLess(s, u)

\* C11: Alloc returns the eligible volume smallest by (category, serial),
\* Filling before Scratch, as a function of the table alone; it fails, and
\* changes nothing, exactly when no volume is eligible.
C11_AllocDeterministic ==
    [][ \A p \in Procs :
          (pc[p] = "alloc" /\ pc'[p] = "idle") =>
              LET a == hist'[Len(hist')] IN
              /\ a.id = cur[p].id
              /\ (a.err # "") <=> (Eligible = {})
              /\ Eligible = {} => db' = db
              /\ Eligible # {} =>
                   /\ a.result \in Eligible
                   /\ \A u \in Eligible \ {a.result} : AllocBefore(a.result, u) ]_vars

\* Two Allocs in a row that find the same Filling volume, and return it
\* although a Scratch volume with a smaller serial is eligible too.
C11_Witness ==
    /\ Len(hist) = 2
    /\ hist[1].op = "Alloc" /\ hist[2].op = "Alloc"
    /\ hist[1].result = V2 /\ hist[2].result = V2
    /\ V1 \in Eligible
    /\ db[V1].category = CategoryString(Scratch)
    /\ db[V2].category = CategoryString(Filling)

\* C12: a successful Alloc changes at most the category of the volume it
\* returns (Filling stays Filling, anything else becomes Allocating); every
\* location, home and flags word, and every other category, is unchanged.
C12_AllocFrame ==
    [][ \A p \in Procs :
          (pc[p] = "alloc" /\ pc'[p] = "idle" /\ hist'[Len(hist')].err = "") =>
              LET s == hist'[Len(hist')].result IN
              /\ DOMAIN db' = DOMAIN db
              /\ s \in DOMAIN db
              /\ phys' = phys
              /\ \A u \in DOMAIN db :
                    /\ db'[u].location = db[u].location
                    /\ db'[u].home = db[u].home
                    /\ db'[u].flags = db[u].flags
                    /\ u # s => db'[u].category = db[u].category
              /\ db'[s].category =
                    IF db[s].category = CategoryString(Filling)
                    THEN CategoryString(Filling)
                    ELSE CategoryString(Allocating) ]_vars

\* An Alloc alone has promoted Scratch volume V1 to Allocating; V2, Scratch in
\* storage as well, is as it was.
C12_Witness ==
    /\ Len(hist) = 1
    /\ hist[1].op = "Alloc" /\ hist[1].err = "" /\ hist[1].result = V1
    /\ db[V1].category = CategoryString(Allocating)
    /\ db[V1].location = Location(1, StorageSlot)
    /\ V2 \in DOMAIN db
    /\ db[V2] = Row(Location(2, StorageSlot), NULL, CategoryString(Scratch), 0)

\* Caller p's Audit executes one upsert (or returns) in this step.
AuditStep(p) ==
    /\ pc[p] = "upsert"
    /\ pc'[p] = "idle" \/ cur'[p].next # cur[p].next

\* Caller p is inside an Audit that directly follows a returned Audit which
\* worked from the same Status snapshot, and neither shares any of its time
\* with another operation.
SecondAudit(p) ==
    /\ pc[p] = "upsert"
    /\ cur[p].overlaps = {}
    /\ hist # <<>>
    /\ LET a == hist[Len(hist)] IN
          /\ a.op = "Audit"
          /\ a.err # "StatusFault"
          /\ a.overlaps = {}
          /\ a.id + 1 = cur[p].id
          /\ a.snap = cur[p].snap

\* C13: Audit is idempotent: a second Audit against the same snapshot, with
\* no other operation in between, leaves the inventory as the first left it.
C13_AuditIdempotent ==
    [][ \A p \in Procs : (SecondAudit(p) /\ AuditStep(p)) => db' = db ]_vars

\* Two Audits in a row from the same snapshot have returned; the first one
\* inserted CLN1 and moved V2's row from the transfer slot to storage slot 2.
C13_Witness ==
    /\ Len(hist) = 2
    /\ hist[1].op = "Audit" /\ hist[1].err = "" /\ hist[1].overlaps = {}
    /\ hist[2].op = "Audit" /\ hist[2].err = "" /\ hist[2].overlaps = {}
    /\ hist[1].snap = hist[2].snap
    /\ CLN1 \in DOMAIN db
    /\ V2 \in DOMAIN db
    /\ db[V2].location = Location(2, StorageSlot)
    /\ db[V2].home = Location(2, StorageSlot)

\* A Load whose changer call failed, followed directly by a successful Audit
\* whose snapshot shows the volume in the slot the Load read it in, neither
\* sharing its time with another operation.
Recovered(a, b) ==
    /\ a.op = "Load" /\ a.invoked /\ ~a.chOk /\ a.overlaps = {}
    /\ b.op = "Audit" /\ b.err = "" /\ b.id = a.id + 1
    /\ b.snap[a.call.src] = a.serial
    /\ Alone(b)

\* C14: an Audit that finds a volume, left in transit by a Load whose changer
\* call failed, still in its original slot sets the row's location to that
\* slot and leaves Transfering cleared.
C14_AuditRecovers ==
    \A a, b \in Returned :
        Recovered(a, b) =>
            /\ db[a.serial].location = a.call.src
            /\ ~Transfering(db[a.serial])

C14_Witness ==
    \E a, b \in Returned :
        /\ Recovered(a, b)
        /\ a.serial = V1
        /\ a.err = "ChangerFault"
        /\ db[V1].location = Location(1, StorageSlot)

InSnapshot(snap, s) == \E l \in Slots : snap[l] = s

\* C15: Audit keeps the category and the home of every serial that has a row,
\* leaves the row of a volume that is not in its snapshot as it is, and
\* inserts an unknown serial as Cleaning if it starts with the cleaning
\* prefix and as Scratch otherwise.
C15_AuditFrame ==
    [][ \A p \in Procs :
          AuditStep(p) =>
              /\ \A s \in DOMAIN db :
                    /\ s \in DOMAIN db'
                    /\ db'[s].category = db[s].category
                    /\ db'[s].home = db[s].home
                    /\ ~InSnapshot(cur[p].snap, s) => db'[s] = db[s]
              /\ \A s \in DOMAIN db' \ DOMAIN db :
                    /\ InSnapshot(cur[p].snap, s)
                    /\ db'[s].category =
                         IF HasPrefix(s, prefixCleaning)
                         THEN CategoryString(Cleaning)
                         ELSE CategoryString(Scratch) ]_vars

\* V2 had no row (a Load of it found none); an Audit then inserted CLN1 as
\* Cleaning and V2 as Scratch, and kept V1's category.
C15_Witness ==
    /\ Len(hist) = 2
    /\ hist[1].op = "Load" /\ hist[1].serial = V2 /\ hist[1].err = "ErrNoRows"
    /\ hist[2].op = "Audit" /\ hist[2].err = ""
    /\ CLN1 \in DOMAIN db /\ db[CLN1].category = CategoryString(Cleaning)
    /\ V2 \in DOMAIN db /\ db[V2].category = CategoryString(Scratch)
    /\ db[V2].home = NULL
    /\ db[V1].category = CategoryString(Scratch)

\* C16: Unload replaces the destination by the recorded home exactly when the
\* caller passed none (the zero Location); a destination the caller passed,
\* address 0 included, is the one validated and handed to chgr.Unload; either
\* way Unload fails validation unless the volume is in a transfer slot.
C16_UnloadDestination ==
    \A a \in AllOps :
        a.op = "Unload" =>
            LET d == IF a.dst = ZeroLocation THEN a.r.Home ELSE a.dst IN
            /\ a.invoked =>
                 /\ a.call.dst = d
                 /\ StorageOrIx(d)
                 /\ a.r.Location.category = TransferSlot
            /\ (a \in Returned /\ a.err # "ErrNoRows"
                  /\ a.r.Location.category # TransferSlot) =>
                 /\ ~a.invoked
                 /\ a.err = "InvalidTransition"

\* C17: whatever the interleaving, the category of a volume that has a row
\* changes only from Scratch or Filling to Allocating, in a step of Alloc, or
\* from Allocating to Allocated, in the finalize step of a Load.
C17_CategoryTransitions ==
    [][ \A s \in DOMAIN db :
          db'[s].category # db[s].category =>
              \/ /\ db[s].category \in {CategoryString(Scratch), CategoryString(Filling)}
                 /\ db'[s].category = CategoryString(Allocating)
                 /\ \E p \in Procs : pc[p] = "alloc" /\ pc'[p] = "idle"
              \/ /\ db[s].category = CategoryString(Allocating)
                 /\ db'[s].category = CategoryString(Allocated)
                 /\ \E p \in Procs :
                       /\ pc[p] = "phase3" /\ pc'[p] = "idle"
                       /\ cur[p].op = "Load" /\ cur[p].serial = s ]_vars

\* C18: a row's home is absent unless the volume is mounted or in transit: a
\* row with a home has Mounted or Transfering set, so that after an Unload has
\* completed, and after an Audit has put the volume back in a storage slot,
\* the home is absent.
C18_HomeOnlyInTransit ==
    \A s \in DOMAIN db :
        db[s].home # NULL => (Mounted(db[s]) \/ Transfering(db[s]))

\* C19: a Load, Unload or Transfer that fails validation has ended its
\* transaction and released the row lock it took when it returns, so no later
\* operation on the serial waits for a lock that nobody will release.
C19_ValidationFailureReleases ==
    /\ \A a \in Returned :
          (a.op \in {"Load", "Unload", "Transfer"} /\ a.err = "InvalidTransition") =>
              /\ a.tx # "open"
              /\ lock[a.serial] # Leaked
    /\ \A p \in Procs :
          (pc[p] = "select" /\ cur[p].op = "Load") => lock[cur[p].serial] # Leaked

\* A Load and an Audit that shared some of their time, both returned without
\* error, with no third operation called.
LoadWithAudit(a, b) ==
    /\ a.op = "Load" /\ a.err = "" /\ a.chOk
    /\ b.op = "Audit" /\ b.err = ""
    /\ a.overlaps = {b.id} /\ b.overlaps = {a.id}
    /\ nOps = 2
    /\ Quiet

\* C20: when an Audit and a Load of the same volume that ran side by side
\* have both returned successfully, the row's location is the slot in which
\* the library holds the volume, and Mounted is set iff that is a transfer
\* slot.
C20_AuditAlongsideLoad ==
    \A a, b \in Returned :
        LoadWithAudit(a, b) =>
            \A l \in Slots :
                phys[l] = a.serial =>
                    /\ db[a.serial].location = l
                    /\ Mounted(db[a.serial]) <=> (l.category = TransferSlot)

\* C21: in every reachable state a row's location is absent if and only if
\* its Transfering flag is set: each statement that clears the location sets
\* the flag, and each statement that sets a location clears it.
C21_LocationAbsentIffTransfering ==
    \A s \in DOMAIN db :
        (db[s].location = NULL) <=> Transfering(db[s])

\* V1 was loaded (location set, Transfering cleared by the Load's final
\* UPDATE) and an Unload of it has committed its intent and moved the tape:
\* the location is absent again and Transfering is set.
C21_Witness ==
    /\ Len(hist) = 1
    /\ hist[1].op = "Load" /\ hist[1].serial = V1 /\ hist[1].err = "" /\ hist[1].chOk
    /\ \E p \in Procs :
          /\ pc[p] = "phase3"
          /\ cur[p].op = "Unload" /\ cur[p].serial = V1
    /\ db[V1].location = NULL
    /\ Transfering(db[V1])
    /\ V2 \in DOMAIN db
    /\ db[V2].location # NULL /\ ~Transfering(db[V2])

====
